---- MODULE Spec2Model ----
(***************************************************************************)
(* Model of Opm::MULTREGTScanner                                           *)
(* (src/opm/parser/eclipse/EclipseState/Grid/MULTREGTScanner.cpp).         *)
(*                                                                         *)
(* The constructor is modelled in its two phases: one AddKeyword step per  *)
(* iteration of its first loop (the whole of addKeyword, validation        *)
(* included), then BuildIndex (the two loops that fill m_searchMap).       *)
(* getRegionMultiplier is a const member: it is the operator               *)
(* getRegionMultiplier, applied by the action GetRegionMultiplier.         *)
(*                                                                         *)
(* A C++ exception is modelled by the sentinel value of its type; a        *)
(* pointer into m_records by the index of the element it points to;        *)
(* a double multiplier by an integer; a FaceDir bit mask by the set of     *)
(* the faces whose bit is set.                                             *)
(***************************************************************************)
EXTENDS Integers, Sequences, FiniteSets, TLC

(***************************************************************************)
(* Bounds of the model.                                                    *)
(***************************************************************************)
\* grid extents (region.getNX(), region.getNY(), and the number of layers)
NX == 2
NY == 2
NZ == 2
\* number of deck records, over all keyword occurrences of one build
MaxDeckRecords == 3

(***************************************************************************)
(* The grid data the scanner is built over (Eclipse3DProperties).          *)
(***************************************************************************)
Cells == 0 .. (NX * NY * NZ - 1)

\* the region arrays of the deck: FLUXNUM and MULTNUM are present, OPERNUM
\* is not.  Cell c = i + NX*j + NX*NY*k.
GridProperties ==
    [ FLUXNUM |-> [c \in Cells |-> 1 + ((c \div 2) % 2)],
      MULTNUM |-> [c \in Cells |-> 1 + (c % 3)] ]

hasDeckIntGridProperty(name) == name \in DOMAIN GridProperties

getIntGridProperty(name) == GridProperties[name]

SetMin(S) == CHOOSE x \in S : \A y \in S : x <= y

RECURSIVE SortedSeq(_)
SortedSeq(S) ==
    IF S = {} THEN << >>
    ELSE LET m == SetMin(S) IN <<m>> \o SortedSeq(S \ {m})

\* the distinct region ids of a region array, ascending; none for an array
\* the deck does not have
getRegions(name) ==
    IF ~hasDeckIntGridProperty(name) THEN << >>
    ELSE LET p == getIntGridProperty(name)
         IN  SortedSeq({p[c] : c \in Cells})

(***************************************************************************)
(* FaceDir                                                                 *)
(***************************************************************************)
Faces == {"XPlus", "XMinus", "YPlus", "YMinus", "ZPlus", "ZMinus"}

FromMULTREGTString(s) ==
    CASE s = "X"   -> {"XPlus", "XMinus"}
      [] s = "Y"   -> {"YPlus", "YMinus"}
      [] s = "Z"   -> {"ZPlus", "ZMinus"}
      [] s = "XY"  -> {"XPlus", "XMinus", "YPlus", "YMinus"}
      [] s = "XZ"  -> {"XPlus", "XMinus", "ZPlus", "ZMinus"}
      [] s = "YZ"  -> {"YPlus", "YMinus", "ZPlus", "ZMinus"}
      [] s = "XYZ" -> Faces

(***************************************************************************)
(* namespace MULTREGT                                                      *)
(***************************************************************************)
InvalidArgument == "std::invalid_argument"
LogicError      == "std::logic_error"
NoError         == "none"

RegionNameFromDeckValue(stringValue) ==
    IF stringValue = "O" THEN "OPERNUM"
    ELSE IF stringValue = "F" THEN "FLUXNUM"
    ELSE IF stringValue = "M" THEN "MULTNUM"
    ELSE InvalidArgument

NNCBehaviourFromString(stringValue) ==
    IF stringValue = "ALL" THEN "ALL"
    ELSE IF stringValue = "NNC" THEN "NNC"
    ELSE IF stringValue = "NONNC" THEN "NONNC"
    ELSE IF stringValue = "NOAQUNNC" THEN "NOAQUNNC"
    ELSE InvalidArgument

(***************************************************************************)
(* The deck: items, records, keyword occurrences.                          *)
(***************************************************************************)
\* a deck item: its value and whether the default was applied
Given(v)  == [defaultApplied |-> FALSE, value |-> v]
Defaulted(v) == [defaultApplied |-> TRUE, value |-> v]

DeckRecord(src, target, mult, dirs, nnc, region) ==
    [ SRC_REGION    |-> src,
      TARGET_REGION |-> target,
      TRAN_MULT     |-> mult,
      DIRECTIONS    |-> dirs,
      NNC_MULT      |-> nnc,
      REGION_DEF    |-> region ]

\* the records of the decks a scanner is built from and then queried
ScanRecords ==
    { DeckRecord(Given(1), Given(2), 3, "X",  "ALL",   Given("F")),
      DeckRecord(Given(2), Given(1), 2, "XY", "NONNC", Given("F")),
      DeckRecord(Given(2), Given(3), 2, "X",  "NNC",   Defaulted("M")) }

\* the records a keyword occurrence is made of: those, other valid ones,
\* a record of a region array the deck lacks, and the four invalid kinds
DeckRecords ==
    ScanRecords \cup
    { DeckRecord(Given(1), Given(2), 2, "X",  "ALL",   Given("M")),
      DeckRecord(Given(1), Given(2), 3, "Y",  "NNC",   Given("M")),
      DeckRecord(Defaulted(-1), Given(2), 3, "X", "ALL", Defaulted("M")),
      DeckRecord(Given(-1), Defaulted(-1), 2, "Y", "ALL", Given("M")),
      DeckRecord(Given(1), Given(2), 2, "X",  "ALL",   Given("O")),
      DeckRecord(Given(1), Given(1), 2, "X",  "ALL",   Given("M")),
      DeckRecord(Given(1), Given(2), 2, "X",  "NOAQUNNC", Given("M")),
      DeckRecord(Given(1), Given(2), 2, "X",  "ALLNNC", Given("M")),
      DeckRecord(Given(1), Given(2), 2, "X",  "ALL",   Given("X")) }

\* the keyword occurrences of at most n records
Keywords(records, n) == UNION { [1 .. len -> records] : len \in 0 .. n }

\* Eclipse3DProperties::getDefaultRegionKeyword()
DefaultRegionKeywords == {"FLUXNUM", "MULTNUM"}

VARIABLES
    pc,             \* "adding": in the constructor's first loop;
                    \* "built": constructed; "failed": the constructor threw
    error,          \* the exception the constructor threw
    defaultRegion,  \* e3DProps.getDefaultRegionKeyword()
    m_records,      \* std::vector<MULTREGTRecord>
    m_searchMap,    \* categorization -> ((src, target) -> record)
    nread,          \* deck records handed to addKeyword so far
    keyword,        \* the occurrence last handed to addKeyword, and
    before,         \* m_records when that call was entered (both kept
                    \* for the span of the loop over the keywords)
    result          \* value of the last getRegionMultiplier call

vars == <<pc, error, defaultRegion, m_records, m_searchMap, nread, keyword,
          before, result>>

\* no getRegionMultiplier call has returned yet
NoResult == << >>

(***************************************************************************)
(* MULTREGTScanner::assertKeywordSupported                                 *)
(***************************************************************************)
\* the exception one record raises, or NoError
RecordSupported(deckRecord) ==
    LET srcItem       == deckRecord.SRC_REGION
        targetItem    == deckRecord.TARGET_REGION
        nnc_behaviour == NNCBehaviourFromString(deckRecord.NNC_MULT)
    IN  IF nnc_behaviour = InvalidArgument THEN InvalidArgument
        ELSE IF /\ ~srcItem.defaultApplied
                /\ ~targetItem.defaultApplied
                /\ srcItem.value = targetItem.value THEN InvalidArgument
        ELSE IF nnc_behaviour = "NOAQUNNC" THEN InvalidArgument
        ELSE NoError

assertKeywordSupported(deckKeyword) ==
    IF \E i \in 1 .. Len(deckKeyword) :
            RecordSupported(deckKeyword[i]) # NoError
    THEN InvalidArgument
    ELSE NoError

(***************************************************************************)
(* MULTREGTScanner::addKeyword                                             *)
(***************************************************************************)
MULTREGTRecord(src, target, mult, dirs, nnc, name) ==
    [ src_value     |-> src,
      target_value  |-> target,
      trans_mult    |-> mult,
      directions    |-> dirs,
      nnc_behaviour |-> nnc,
      region_name   |-> name ]

\* a resolution that never looks at the rule list
ResolveRegionNameNoInherit(deckRecord, records, defaultName) ==
    IF deckRecord.REGION_DEF.defaultApplied THEN defaultName
    ELSE RegionNameFromDeckValue(deckRecord.REGION_DEF.value)

\* region_name of one record, records being the rule list so far
ResolveRegionName(deckRecord, records, defaultName) ==
    LET regionItem == deckRecord.REGION_DEF
    IN  IF regionItem.defaultApplied
        THEN IF records # << >> THEN records[Len(records)].region_name
             ELSE defaultName
        ELSE RegionNameFromDeckValue(regionItem.value)

\* a resolution that takes a negative id for an explicit one
ResolveRegionsDefaultOnly(item, region_name) ==
    IF item.defaultApplied THEN getRegions(region_name)
    ELSE <<item.value>>

\* src_regions / target_regions of one item
ResolveRegions(item, region_name) ==
    IF item.defaultApplied \/ item.value < 0
    THEN getRegions(region_name)
    ELSE <<item.value>>

\* the inner loop: one rule per target region, for one source region
RECURSIVE PushTargets(_, _, _, _, _)
PushTargets(records, deckRecord, region_name, src_region, target_regions) ==
    IF target_regions = << >> THEN records
    ELSE PushTargets(
            Append(records,
                   MULTREGTRecord(src_region, Head(target_regions),
                       deckRecord.TRAN_MULT,
                       FromMULTREGTString(deckRecord.DIRECTIONS),
                       NNCBehaviourFromString(deckRecord.NNC_MULT),
                       region_name)),
            deckRecord, region_name, src_region, Tail(target_regions))

\* the outer loop over the source regions
RECURSIVE PushSources(_, _, _, _, _)
PushSources(records, deckRecord, region_name, src_regions, target_regions) ==
    IF src_regions = << >> THEN records
    ELSE PushSources(
            PushTargets(records, deckRecord, region_name, Head(src_regions),
                        target_regions),
            deckRecord, region_name, Tail(src_regions), target_regions)

\* the loop over the records of the occurrence, from record i on:
\* the rule list it leaves and the exception it ends with
RECURSIVE ExpandRecords(_, _, _, _)
ExpandRecords(deckKeyword, i, records, defaultName) ==
    IF i > Len(deckKeyword) THEN [records |-> records, error |-> NoError]
    ELSE LET deckRecord  == deckKeyword[i]
             region_name == ResolveRegionName(deckRecord, records, defaultName)
         IN  IF region_name = InvalidArgument
             THEN [records |-> records, error |-> InvalidArgument]
             ELSE ExpandRecords(deckKeyword, i + 1,
                     PushSources(records, deckRecord, region_name,
                         ResolveRegions(deckRecord.SRC_REGION, region_name),
                         ResolveRegions(deckRecord.TARGET_REGION, region_name)),
                     defaultName)

\* the rule list and the exception addKeyword ends with
addKeyword(deckKeyword, records, defaultName) ==
    IF assertKeywordSupported(deckKeyword) # NoError
    THEN [records |-> records, error |-> InvalidArgument]
    ELSE ExpandRecords(deckKeyword, 1, records, defaultName)

\* one iteration of the constructor's loop over the keywords
AddKeyword(deckKeyword) ==
    /\ pc = "adding"
    /\ nread + Len(deckKeyword) <= MaxDeckRecords
    /\ LET r == addKeyword(deckKeyword, m_records, defaultRegion)
       IN  /\ m_records' = r.records
           /\ error' = r.error
           /\ pc' = IF r.error = NoError THEN "adding" ELSE "failed"
    /\ nread' = nread + Len(deckKeyword)
    /\ keyword' = deckKeyword
    /\ before' = m_records
    /\ UNCHANGED <<defaultRegion, m_searchMap, result>>

(***************************************************************************)
(* MULTREGTScanner::MULTREGTScanner, after the loop over the keywords      *)
(***************************************************************************)
\* map[key] = value of a std::map, the map being a function
MapPut(map, key, value) ==
    [k \in DOMAIN map \cup {key} |-> IF k = key THEN value ELSE map[k]]

EmptyMap == [k \in {} |-> 0]

\* a map insertion that keeps the entry already there
InsertPairKeepFirst(searchPairs, pair, record) ==
    IF pair \in DOMAIN searchPairs THEN searchPairs
    ELSE MapPut(searchPairs, pair, record)

\* searchPairs[pair] = &(*record)
InsertPair(searchPairs, pair, record) == MapPut(searchPairs, pair, record)

\* a first loop that passes over the records of a missing region array
RECURSIVE BuildSearchPairsSkipUnknown(_, _, _)
BuildSearchPairsSkipUnknown(records, i, searchPairs) ==
    IF i > Len(records) THEN [searchPairs |-> searchPairs, error |-> NoError]
    ELSE IF /\ hasDeckIntGridProperty(records[i].region_name)
            /\ records[i].src_value # records[i].target_value
         THEN BuildSearchPairsSkipUnknown(records, i + 1,
                 InsertPair(searchPairs, <<records[i].src_value,
                                          records[i].target_value>>, i))
         ELSE BuildSearchPairsSkipUnknown(records, i + 1, searchPairs)

\* the first loop: searchPairs[(src, target)] = &record, from record i on;
\* the map it leaves and the exception it ends with
RECURSIVE BuildSearchPairs(_, _, _)
BuildSearchPairs(records, i, searchPairs) ==
    IF i > Len(records) THEN [searchPairs |-> searchPairs, error |-> NoError]
    ELSE IF hasDeckIntGridProperty(records[i].region_name)
         THEN LET srcRegion    == records[i].src_value
                  targetRegion == records[i].target_value
              IN  IF srcRegion # targetRegion
                  THEN BuildSearchPairs(records, i + 1,
                          InsertPair(searchPairs,
                                     <<srcRegion, targetRegion>>, i))
                  ELSE BuildSearchPairs(records, i + 1, searchPairs)
         ELSE [searchPairs |-> searchPairs, error |-> LogicError]

\* the second loop: m_searchMap[record->region_name][pair] = record,
\* for the pairs of searchPairs still to visit
RECURSIVE FillSearchMap(_, _, _, _)
FillSearchMap(records, searchPairs, pairs, searchMap) ==
    IF pairs = {} THEN searchMap
    ELSE LET pair    == CHOOSE p \in pairs : TRUE
             record  == searchPairs[pair]
             name    == records[record].region_name
             inner   == IF name \in DOMAIN searchMap THEN searchMap[name]
                        ELSE EmptyMap
         IN  FillSearchMap(records, searchPairs, pairs \ {pair},
                 MapPut(searchMap, name, MapPut(inner, pair, record)))

\* the loop over the keywords is over: its occurrence and its count are
\* no longer there
BuildIndex ==
    /\ pc = "adding"
    /\ LET r == BuildSearchPairs(m_records, 1, EmptyMap)
       IN  IF r.error = NoError
           THEN /\ m_searchMap' = FillSearchMap(m_records, r.searchPairs,
                                       DOMAIN r.searchPairs, EmptyMap)
                /\ pc' = "built"
                /\ error' = NoError
           ELSE /\ m_searchMap' = m_searchMap
                /\ pc' = "failed"
                /\ error' = LogicError
    /\ nread' = 0
    /\ keyword' = << >>
    /\ before' = << >>
    /\ UNCHANGED <<defaultRegion, m_records, result>>

(***************************************************************************)
(* MULTREGTScanner::getRegionMultiplier                                    *)
(***************************************************************************)
\* the keys of m_searchMap in the order std::map iterates them
NameOrder == <<"FLUXNUM", "MULTNUM", "OPERNUM">>

\* the keys in the opposite order
ActiveNamesDescending(searchMap) ==
    SelectSeq(<<"OPERNUM", "MULTNUM", "FLUXNUM">>,
              LAMBDA n : n \in DOMAIN searchMap)

ActiveNames(searchMap) ==
    SelectSeq(NameOrder, LAMBDA n : n \in DOMAIN searchMap)

Abs(x) == IF x < 0 THEN -x ELSE x

\* a test of the key alone, whatever the direction mask
PairMatchesAnyFace(records, map, pair, faceDir) == pair \in DOMAIN map

\* map.count(pair) == 1 && (map.at(pair)->directions & faceDir)
PairMatches(records, map, pair, faceDir) ==
    /\ pair \in DOMAIN map
    /\ faceDir \in records[map[pair]].directions

\* a lookup that gives up when the forward key is there with another mask
MatchedPairForwardOnly(records, map, regionId1, regionId2, faceDir) ==
    IF PairMatches(records, map, <<regionId1, regionId2>>, faceDir)
    THEN <<regionId1, regionId2>>
    ELSE IF /\ <<regionId1, regionId2>> \notin DOMAIN map
            /\ PairMatches(records, map, <<regionId2, regionId1>>, faceDir)
    THEN <<regionId2, regionId1>>
    ELSE << >>

\* the pair the lookup settles on in one categorization, or << >> (continue)
MatchedPair(records, map, regionId1, regionId2, faceDir) ==
    IF PairMatches(records, map, <<regionId1, regionId2>>, faceDir)
    THEN <<regionId1, regionId2>>
    ELSE IF PairMatches(records, map, <<regionId2, regionId1>>, faceDir)
    THEN <<regionId2, regionId1>>
    ELSE << >>

\* a neighbour test that counts a step along k as well
ShortNeighbours3D(globalIndex1, globalIndex2) ==
    LET i1 == globalIndex1 % NX
        i2 == globalIndex2 % NX
        j1 == (globalIndex1 \div NX) % NY
        j2 == (globalIndex2 \div NX) % NY
        k1 == globalIndex1 \div (NX * NY)
        k2 == globalIndex2 \div (NX * NY)
    IN  Abs(i1 - i2) + Abs(j1 - j2) + Abs(k1 - k2) = 1

ShortNeighbours(globalIndex1, globalIndex2) ==
    LET i1 == globalIndex1 % NX
        i2 == globalIndex2 % NX
        j1 == (globalIndex1 \div NX) % NY
        j2 == (globalIndex2 \div NX) % NY
    IN  \/ (Abs(i1 - i2) = 0 /\ Abs(j1 - j2) = 1)
        \/ (Abs(i1 - i2) = 1 /\ Abs(j1 - j2) = 0)

\* applyMultiplier for a matched record
ApplyMultiplier(record, globalIndex1, globalIndex2) ==
    IF record.nnc_behaviour = "NNC"
    THEN ~ShortNeighbours(globalIndex1, globalIndex2)
    ELSE IF record.nnc_behaviour = "NONNC"
    THEN ShortNeighbours(globalIndex1, globalIndex2)
    ELSE TRUE

\* the loop over m_searchMap, names being the keys still to visit
RECURSIVE ScanNames(_, _, _, _, _, _)
ScanNames(records, searchMap, names, globalIndex1, globalIndex2, faceDir) ==
    IF names = << >> THEN 1
    ELSE LET region    == getIntGridProperty(Head(names))
             map       == searchMap[Head(names)]
             regionId1 == region[globalIndex1]
             regionId2 == region[globalIndex2]
             pair      == MatchedPair(records, map, regionId1, regionId2,
                                      faceDir)
         IN  IF pair = << >>
             THEN ScanNames(records, searchMap, Tail(names), globalIndex1,
                            globalIndex2, faceDir)
             ELSE IF ApplyMultiplier(records[map[pair]], globalIndex1,
                                     globalIndex2)
             THEN records[map[pair]].trans_mult
             ELSE ScanNames(records, searchMap, Tail(names), globalIndex1,
                            globalIndex2, faceDir)

getRegionMultiplier(globalIndex1, globalIndex2, faceDir) ==
    ScanNames(m_records, m_searchMap, ActiveNames(m_searchMap),
              globalIndex1, globalIndex2, faceDir)

GetRegionMultiplier(globalIndex1, globalIndex2, faceDir) ==
    /\ pc = "built"
    /\ result' = <<getRegionMultiplier(globalIndex1, globalIndex2, faceDir)>>
    /\ UNCHANGED <<pc, error, defaultRegion, m_records, m_searchMap, nread,
                   keyword, before>>

(***************************************************************************)
(* The specification                                                       *)
(***************************************************************************)
Init ==
    /\ pc = "adding"
    /\ error = NoError
    /\ defaultRegion \in DefaultRegionKeywords
    /\ m_records = << >>
    /\ m_searchMap = EmptyMap
    /\ nread = 0
    /\ keyword = << >>
    /\ before = << >>
    /\ result = NoResult

\* the constructor: the keyword occurrences of the deck, then the index
Construct ==
    \/ \E deckKeyword \in Keywords(DeckRecords, MaxDeckRecords - nread) :
          AddKeyword(deckKeyword)
    \/ BuildIndex

\* the constructor, over a deck that gives a scanner
ConstructScanner ==
    \/ \E deckKeyword \in Keywords(ScanRecords, MaxDeckRecords - nread) :
          AddKeyword(deckKeyword)
    \/ BuildIndex

Scan ==
    \E globalIndex1 \in Cells, globalIndex2 \in Cells, faceDir \in Faces :
        GetRegionMultiplier(globalIndex1, globalIndex2, faceDir)

Next == Construct

NextScan == ConstructScanner \/ Scan

\* the construction of a scanner
Spec == Init /\ [][Next]_vars

\* the decks a scanner is queried for are read with MULTNUM as the default
\* region keyword
InitScan == Init /\ defaultRegion = "MULTNUM"

\* the construction of a scanner and the queries made of it
SpecScan == InitScan /\ [][NextScan]_vars

(***************************************************************************)
(* Properties of the index                                                 *)
(***************************************************************************)
Built == pc = "built"

RulePair(rule) == <<rule.src_value, rule.target_value>>

HasEntry(name, pair) ==
    /\ name \in DOMAIN m_searchMap
    /\ pair \in DOMAIN m_searchMap[name]

SetMax(S) == CHOOSE x \in S : \A y \in S : y <= x

\* positions in the rule list of the rules with this categorization and pair
RulesOf(name, pair) ==
    { i \in 1 .. Len(m_records) :
        m_records[i].region_name = name /\ RulePair(m_records[i]) = pair }

\* positions in the rule list of the rules with this pair, in any
\* categorization
RulesOfPair(pair) ==
    { i \in 1 .. Len(m_records) : RulePair(m_records[i]) = pair }

\* C1 as stated: after a successful build every rule with src # target has
\* an index entry under its own categorization and pair, and that entry is
\* the last rule generated with that categorization and pair; rules for one
\* pair in two categorizations are both in the index.
C1_EntryPerCategorization ==
    Built =>
        \A i \in 1 .. Len(m_records) :
            LET name == m_records[i].region_name
                pair == RulePair(m_records[i])
            IN  m_records[i].src_value # m_records[i].target_value =>
                    /\ HasEntry(name, pair)
                    /\ m_searchMap[name][pair] = SetMax(RulesOf(name, pair))

\* C1 as amended: after a successful build every ordered pair (s,t), s # t,
\* of the rule list has exactly one index entry: it is the last rule
\* generated with that pair in ANY categorization, filed under that rule's
\* categorization; no other categorization holds the pair.
C1_EntryPerPair ==
    Built =>
        \A i \in 1 .. Len(m_records) :
            LET pair == RulePair(m_records[i])
                last == SetMax(RulesOfPair(pair))
            IN  m_records[i].src_value # m_records[i].target_value =>
                    /\ HasEntry(m_records[last].region_name, pair)
                    /\ m_searchMap[m_records[last].region_name][pair] = last
                    /\ \A name \in DOMAIN m_searchMap :
                          name # m_records[last].region_name
                              => ~HasEntry(name, pair)

\* a built index from a rule list that names one pair in two categorizations
C1_Witness ==
    /\ Built
    /\ \E i, j \in 1 .. Len(m_records) :
          /\ i < j
          /\ RulePair(m_records[i]) = RulePair(m_records[j])
          /\ m_records[i].src_value # m_records[i].target_value
          /\ m_records[i].region_name # m_records[j].region_name
          /\ j = SetMax(RulesOfPair(RulePair(m_records[j])))
          /\ HasEntry(m_records[j].region_name, RulePair(m_records[j]))
          /\ ~HasEntry(m_records[i].region_name, RulePair(m_records[i]))

\* C2: every entry of the built index, under categorization C and pair
\* (s,t), is the last rule generated with that C and (s,t), never an earlier
\* one; the key matches a face exactly when the later rule's mask has it.
C2_LastWriteWins ==
    Built =>
        \A name \in DOMAIN m_searchMap :
            \A pair \in DOMAIN m_searchMap[name] :
                /\ RulesOf(name, pair) # {}
                /\ m_searchMap[name][pair] = SetMax(RulesOf(name, pair))
                /\ \A faceDir \in Faces :
                      PairMatches(m_records, m_searchMap[name], pair, faceDir)
                          <=> faceDir \in
                                m_records[SetMax(RulesOf(name, pair))].directions

\* a built index whose entry replaced an earlier rule of the same
\* categorization and pair, with another multiplier and a face of its own
C2_Witness ==
    /\ Built
    /\ \E name \in DOMAIN m_searchMap :
          \E pair \in DOMAIN m_searchMap[name] :
              \E i \in RulesOf(name, pair) :
                  LET j == m_searchMap[name][pair]
                  IN  /\ i < j
                      /\ m_records[i].trans_mult # m_records[j].trans_mult
                      /\ \E faceDir \in m_records[i].directions :
                            /\ faceDir \notin m_records[j].directions
                            /\ ~PairMatches(m_records, m_searchMap[name],
                                            pair, faceDir)

(***************************************************************************)
(* Properties of the constructor's failures                                *)
(***************************************************************************)
\* C6: when addKeyword ends with an invalid-argument error, whichever record
\* of the occurrence raised it, the rule list is what it was when the
\* occurrence was handed over: no rule of any of its records was appended.
C6_NoPartialAcceptance ==
    (pc = "failed" /\ error = InvalidArgument) => m_records = before

\* C7: a build over a rule list that names a categorization without region
\* array ends with a logic error and leaves no index, wherever the rule
\* stands and whether or not its src equals its target; a build that
\* succeeds has no such rule.
C7_UnknownCategorization ==
    LET unknown == { i \in 1 .. Len(m_records) :
                        m_records[i].region_name
                            \notin {"FLUXNUM", "MULTNUM"} }
    IN  /\ Built => unknown = {}
        /\ (pc = "failed" /\ error = LogicError) =>
               /\ unknown # {}
               /\ m_searchMap = EmptyMap
        /\ (pc = "failed" /\ unknown # {}) => DOMAIN m_searchMap = {}

\* a build that failed on a rule which is not the first of the rule list
C7_Witness ==
    /\ pc = "failed"
    /\ error = LogicError
    /\ Len(m_records) >= 2
    /\ m_records[1].region_name = "MULTNUM"
    /\ m_records[Len(m_records)].region_name = "OPERNUM"
    /\ m_searchMap = EmptyMap

(***************************************************************************)
(* Properties of addKeyword, stated on the occurrence last handed over     *)
(* (keyword), the rule list at that moment (before) and the rule list now. *)
(***************************************************************************)
\* in the loop over the keywords, the last addKeyword call having returned
Accepted == pc = "adding"

\* the distinct region ids of a categorization's array
RegionIds(name) ==
    IF name = "FLUXNUM" THEN {GridProperties.FLUXNUM[c] : c \in Cells}
    ELSE IF name = "MULTNUM" THEN {GridProperties.MULTNUM[c] : c \in Cells}
    ELSE {}

\* the region ids an item stands for
ItemIds(item, name) ==
    IF item.defaultApplied \/ item.value < 0 THEN RegionIds(name)
    ELSE {item.value}

\* the n-th id of a set, ascending
NthId(S, n) == CHOOSE x \in S : Cardinality({y \in S : y < x}) = n - 1

\* the categorization the rules of a record carry, given the rules before it
InheritedName(deckRecord, rulesBefore) ==
    IF ~deckRecord.REGION_DEF.defaultApplied
    THEN CASE deckRecord.REGION_DEF.value = "O" -> "OPERNUM"
           [] deckRecord.REGION_DEF.value = "F" -> "FLUXNUM"
           [] deckRecord.REGION_DEF.value = "M" -> "MULTNUM"
    ELSE IF Len(rulesBefore) = 0 THEN defaultRegion
    ELSE rulesBefore[Len(rulesBefore)].region_name

\* where in the rule list the rules of record i of the occurrence start,
\* their categorization and their number
RECURSIVE SegStart(_), SegName(_), SegCount(_)
SegStart(i) ==
    IF i = 1 THEN Len(before) ELSE SegStart(i - 1) + SegCount(i - 1)

SegName(i) ==
    InheritedName(keyword[i], SubSeq(m_records, 1, SegStart(i)))

SegCount(i) ==
    Cardinality(ItemIds(keyword[i].SRC_REGION, SegName(i)))
        * Cardinality(ItemIds(keyword[i].TARGET_REGION, SegName(i)))

\* C8: the rules of a record with a defaulted categorization carry the
\* categorization of the last rule in the shared rule list at that moment,
\* be it of an earlier occurrence, and the default categorization only when
\* the list is empty; an explicit code O/F/M gives OPERNUM/FLUXNUM/MULTNUM.
C8_CategorizationInheritance ==
    Accepted =>
        \A i \in 1 .. Len(keyword) :
            \A k \in (SegStart(i) + 1) .. (SegStart(i) + SegCount(i)) :
                /\ k <= Len(m_records)
                /\ m_records[k].region_name = SegName(i)

\* a record with a defaulted categorization, first of its occurrence, whose
\* rules took the categorization of a rule of an earlier occurrence, that
\* categorization not being the default one
C8_Witness ==
    /\ Accepted
    /\ Len(keyword) >= 1
    /\ Len(before) >= 1
    /\ keyword[1].REGION_DEF.defaultApplied
    /\ before[Len(before)].region_name # defaultRegion
    /\ Len(m_records) > Len(before)
    /\ m_records[Len(before) + 1].region_name
           = before[Len(before)].region_name

\* C9: the rules a valid record appends are one per element of (source
\* ids) x (target ids), source-major and ascending, all with the record's
\* multiplier, mask, NNC behaviour and categorization; a defaulted or
\* negative item stands for all the region ids of the categorization, any
\* other for its own id.  Nothing else is appended or changed.
C9_WildcardExpansion ==
    Accepted =>
        /\ SubSeq(m_records, 1, Len(before)) = before
        /\ Len(m_records) =
              IF keyword = << >> THEN Len(before)
              ELSE SegStart(Len(keyword)) + SegCount(Len(keyword))
        /\ \A i \in 1 .. Len(keyword) :
              LET srcIds    == ItemIds(keyword[i].SRC_REGION, SegName(i))
                  targetIds == ItemIds(keyword[i].TARGET_REGION, SegName(i))
              IN  \A s \in 1 .. Cardinality(srcIds) :
                    \A t \in 1 .. Cardinality(targetIds) :
                      m_records[SegStart(i)
                                + (s - 1) * Cardinality(targetIds) + t]
                        = [ src_value     |-> NthId(srcIds, s),
                            target_value  |-> NthId(targetIds, t),
                            trans_mult    |-> keyword[i].TRAN_MULT,
                            directions    |->
                                FromMULTREGTString(keyword[i].DIRECTIONS),
                            nnc_behaviour |-> keyword[i].NNC_MULT,
                            region_name   |-> SegName(i) ]

\* a record with a wildcard source and the explicit target 2 in MULTNUM,
\* whose region ids are 1, 2, 3: the rules (1,2), (2,2), (3,2)
C9_Witness ==
    /\ Accepted
    /\ Len(keyword) = 1
    /\ keyword[1].SRC_REGION.defaultApplied
    /\ ~keyword[1].TARGET_REGION.defaultApplied
    /\ keyword[1].TARGET_REGION.value = 2
    /\ Len(before) >= 1
    /\ Len(m_records) = Len(before) + 3
    /\ \A n \in 1 .. 3 :
          /\ RulePair(m_records[Len(before) + n]) = <<n, 2>>
          /\ m_records[Len(before) + n].region_name = "MULTNUM"

(***************************************************************************)
(* Properties of getRegionMultiplier                                       *)
(***************************************************************************)
\* the region id of a cell in a categorization of the index
RegionOf(name, cell) ==
    IF name = "FLUXNUM" THEN GridProperties.FLUXNUM[cell]
    ELSE GridProperties.MULTNUM[cell]

Rule(name, pair) == m_records[m_searchMap[name][pair]]

\* the index holds a rule for the key whose mask has the face
Holds(name, pair, faceDir) ==
    /\ HasEntry(name, pair)
    /\ faceDir \in Rule(name, pair).directions

Ids(name, a, b) == <<RegionOf(name, a), RegionOf(name, b)>>

\* the categorization matches the cell pair and the face, in either order
Matches(name, a, b, faceDir) ==
    \/ Holds(name, Ids(name, a, b), faceDir)
    \/ Holds(name, Ids(name, b, a), faceDir)

\* the rule a matching categorization answers with: the forward key's when
\* it matches, the swapped key's otherwise
MatchingRule(name, a, b, faceDir) ==
    IF Holds(name, Ids(name, a, b), faceDir) THEN Rule(name, Ids(name, a, b))
    ELSE Rule(name, Ids(name, b, a))

\* (|di|,|dj|) is (0,1) or (1,0)
Short(a, b) ==
    LET di == (a % NX) - (b % NX)
        dj == ((a \div NX) % NY) - ((b \div NX) % NY)
    IN  <<IF di < 0 THEN -di ELSE di, IF dj < 0 THEN -dj ELSE dj>>
            \in {<<0, 1>>, <<1, 0>>}

\* what the rule gives for the cell pair under its NNC behaviour
Applies(rule, a, b) ==
    CASE rule.nnc_behaviour = "ALL"   -> TRUE
      [] rule.nnc_behaviour = "NNC"   -> ~Short(a, b)
      [] rule.nnc_behaviour = "NONNC" -> Short(a, b)

\* the position of a categorization in the iteration over the index
Position(name) ==
    CASE name = "FLUXNUM" -> 1 [] name = "MULTNUM" -> 2 [] name = "OPERNUM" -> 3

\* C3 as stated: a categorization holding a rule for (r1,r2) with the face
\* and no entry for (r2,r1) answers with that rule for cells of regions r1
\* and r2 in either order, and getRegionMultiplier(a,b,face) equals
\* getRegionMultiplier(b,a,face).
C3_SymmetricLookup ==
    Built =>
        \A name \in DOMAIN m_searchMap : \A a, b \in Cells, faceDir \in Faces :
            (/\ Holds(name, Ids(name, a, b), faceDir)
             /\ ~HasEntry(name, Ids(name, b, a)))
            => /\ MatchedPair(m_records, m_searchMap[name],
                              RegionOf(name, a), RegionOf(name, b), faceDir)
                      = Ids(name, a, b)
               /\ MatchedPair(m_records, m_searchMap[name],
                              RegionOf(name, b), RegionOf(name, a), faceDir)
                      = Ids(name, a, b)
               /\ getRegionMultiplier(a, b, faceDir)
                      = getRegionMultiplier(b, a, faceDir)

\* no categorization of the index matches the cell pair and the face under
\* both orders of the key
NoTwoWayMatch(a, b, faceDir) ==
    \A name \in DOMAIN m_searchMap :
        ~(/\ Holds(name, Ids(name, a, b), faceDir)
          /\ Holds(name, Ids(name, b, a), faceDir))

\* C3 as amended: such a categorization settles on that rule for the cells
\* in either order; getRegionMultiplier(a,b,face) equals
\* getRegionMultiplier(b,a,face) whenever no categorization of the index
\* matches the face under both orders of the cells' region ids; and a
\* forward key whose mask lacks the face does not stop the swapped key from
\* being tried.
C3_SymmetricLookupPerCategorization ==
    Built =>
        \A a, b \in Cells, faceDir \in Faces :
            /\ \A name \in DOMAIN m_searchMap :
                  /\ (/\ Holds(name, Ids(name, a, b), faceDir)
                      /\ ~HasEntry(name, Ids(name, b, a)))
                     => /\ MatchedPair(m_records, m_searchMap[name],
                               RegionOf(name, a), RegionOf(name, b), faceDir)
                               = Ids(name, a, b)
                        /\ MatchedPair(m_records, m_searchMap[name],
                               RegionOf(name, b), RegionOf(name, a), faceDir)
                               = Ids(name, a, b)
                  /\ (/\ HasEntry(name, Ids(name, a, b))
                      /\ ~Holds(name, Ids(name, a, b), faceDir)
                      /\ Holds(name, Ids(name, b, a), faceDir))
                     => MatchedPair(m_records, m_searchMap[name],
                               RegionOf(name, a), RegionOf(name, b), faceDir)
                               = Ids(name, b, a)
            /\ NoTwoWayMatch(a, b, faceDir)
                  => getRegionMultiplier(a, b, faceDir)
                        = getRegionMultiplier(b, a, faceDir)

\* a query for cells of regions (r2,r1), answered with the multiplier of a
\* rule the index holds as (r1,r2) only, in an index of two categorizations
C3_Witness ==
    /\ Built
    /\ result # NoResult
    /\ Cardinality(DOMAIN m_searchMap) = 2
    /\ \E name \in DOMAIN m_searchMap : \E a, b \in Cells, faceDir \in Faces :
          /\ Holds(name, Ids(name, b, a), faceDir)
          /\ ~HasEntry(name, Ids(name, a, b))
          /\ NoTwoWayMatch(a, b, faceDir)
          /\ Rule(name, Ids(name, b, a)).trans_mult # 1
          /\ result = <<Rule(name, Ids(name, b, a)).trans_mult>>
          /\ result = <<getRegionMultiplier(a, b, faceDir)>>
          /\ result = <<getRegionMultiplier(b, a, faceDir)>>

\* C4: with the index in a single categorization and a rule matching the
\* cells' regions and the face, the value is the rule's multiplier for ALL;
\* for NNC 1 when the cells are short neighbours and the multiplier
\* otherwise; for NONNC the multiplier when they are short neighbours and 1
\* otherwise.  Short is decided on i and j alone: cells that differ only in
\* k are not short.
C4_NNCClassification ==
    Built =>
        \A name \in DOMAIN m_searchMap : \A a, b \in Cells, faceDir \in Faces :
            (DOMAIN m_searchMap = {name} /\ Matches(name, a, b, faceDir))
            => LET rule == MatchingRule(name, a, b, faceDir)
               IN  /\ rule.nnc_behaviour \in {"ALL", "NNC", "NONNC"}
                   /\ getRegionMultiplier(a, b, faceDir) =
                         IF Applies(rule, a, b) THEN rule.trans_mult ELSE 1
                   /\ (a # b /\ a % (NX * NY) = b % (NX * NY))
                         => /\ ~Short(a, b)
                            /\ ~ShortNeighbours(a, b)

\* a query for two cells that differ only in k, answered by an NNC rule of
\* the only categorization with the rule's multiplier
C4_Witness ==
    /\ Built
    /\ result # NoResult
    /\ \E name \in DOMAIN m_searchMap : \E a, b \in Cells, faceDir \in Faces :
          /\ DOMAIN m_searchMap = {name}
          /\ Matches(name, a, b, faceDir)
          /\ a # b
          /\ a % (NX * NY) = b % (NX * NY)
          /\ MatchingRule(name, a, b, faceDir).nnc_behaviour = "NNC"
          /\ MatchingRule(name, a, b, faceDir).trans_mult # 1
          /\ result = <<MatchingRule(name, a, b, faceDir).trans_mult>>
          /\ result = <<getRegionMultiplier(a, b, faceDir)>>

\* the multipliers of the rules in the index
IndexMultipliers ==
    UNION { { Rule(name, pair).trans_mult : pair \in DOMAIN m_searchMap[name] } :
            name \in DOMAIN m_searchMap }

\* C5: a query that no categorization of the index matches, under either
\* order of the key, gives exactly 1; every query gives 1 or the multiplier
\* of a rule in the index, and so does every call made.
C5_NoMatchDefault ==
    Built =>
        LET values == {1} \cup IndexMultipliers
        IN  /\ \A a, b \in Cells, faceDir \in Faces :
                  LET value == getRegionMultiplier(a, b, faceDir)
                  IN  /\ (\A name \in DOMAIN m_searchMap :
                             ~Matches(name, a, b, faceDir)) => value = 1
                      /\ value \in values
            /\ result # NoResult => result[1] \in values

\* a query answered with 1 for want of a match, the cells' regions being a
\* key of the index whose mask lacks the face
C5_Witness ==
    /\ Built
    /\ result = <<1>>
    /\ 1 \notin IndexMultipliers
    /\ \E a, b \in Cells, faceDir \in Faces :
          /\ \A name \in DOMAIN m_searchMap : ~Matches(name, a, b, faceDir)
          /\ \E name \in DOMAIN m_searchMap : HasEntry(name, Ids(name, a, b))
          /\ getRegionMultiplier(a, b, faceDir) = 1

\* the categorizations of the index that match the cell pair and the face
Matching(a, b, faceDir) ==
    { name \in DOMAIN m_searchMap : Matches(name, a, b, faceDir) }

\* the first of a set of categorizations in iteration order
First(names) ==
    CHOOSE n \in names : \A m \in names : Position(n) <= Position(m)

\* C10 as stated: when more than one categorization matches the cell pair
\* and the face, the first of them in iteration order decides the value:
\* the loop returns there and no later categorization has a say.
C10_FirstMatchWins ==
    Built =>
        \A a, b \in Cells, faceDir \in Faces :
            Cardinality(Matching(a, b, faceDir)) > 1
            => LET rule == MatchingRule(First(Matching(a, b, faceDir)),
                                        a, b, faceDir)
               IN  getRegionMultiplier(a, b, faceDir) =
                       IF Applies(rule, a, b) THEN rule.trans_mult ELSE 1

\* the matching categorizations whose rule applies to the cell pair
Applying(a, b, faceDir) ==
    { name \in Matching(a, b, faceDir) :
        Applies(MatchingRule(name, a, b, faceDir), a, b) }

\* C10 as amended: the value is decided by the first categorization in
\* iteration order whose matching rule applies under its NNC behaviour; a
\* matching categorization whose rule is suppressed does not end the loop,
\* and the value is 1 when no matching rule applies.
C10_FirstApplyingMatchWins ==
    Built =>
        \A a, b \in Cells, faceDir \in Faces :
            getRegionMultiplier(a, b, faceDir) =
                IF Applying(a, b, faceDir) = {} THEN 1
                ELSE MatchingRule(First(Applying(a, b, faceDir)),
                                  a, b, faceDir).trans_mult

\* a query that two categorizations match with rules that both apply and
\* differ in their multiplier, answered with the first one's
C10_Witness ==
    /\ Built
    /\ result # NoResult
    /\ \E a, b \in Cells, faceDir \in Faces :
          /\ Applying(a, b, faceDir) = {"FLUXNUM", "MULTNUM"}
          /\ MatchingRule("FLUXNUM", a, b, faceDir).trans_mult
                # MatchingRule("MULTNUM", a, b, faceDir).trans_mult
          /\ result = <<MatchingRule("FLUXNUM", a, b, faceDir).trans_mult>>
          /\ result = <<getRegionMultiplier(a, b, faceDir)>>

====
